---- MODULE Spec2Model ----
(***************************************************************************)
(* nora: capture the root window, optionally blend the pointer sprite onto *)
(* the captured image, upload the image into a pixmap (split into row      *)
(* chunks when it exceeds the maximum request length), show the pixmap as  *)
(* the background of an override-redirect window and run a child command.  *)
(*                                                                         *)
(* The model follows src/src/main.rs (main, run) statement by statement    *)
(* and src/src/ffi.rs (Display::open, Display::get_cursor_image,           *)
(* CursorImage) for the pointer sprite.                                    *)
(*                                                                         *)
(* usize values are written in two's complement: a model integer s stands  *)
(* for the 64-bit value s mod 2^64, so a negative s is the wrapped value   *)
(* 2^64 + s.  Comparisons between usize values are the unsigned ones.      *)
(***************************************************************************)
EXTENDS Integers, Sequences, FiniteSets, TLC

VARIABLES
    pc,                 \* position in run()/main()
    overflow_checks,    \* the build: TRUE = debug (overflow panics), FALSE = release (wraps)
    show_cursor,        \* args.show_cursor
    width, height,      \* screen.width_in_pixels(), screen.height_in_pixels()
    cursor,             \* Option<CursorImage>: None or the XFixesCursorImage record
    snapshot,           \* image.data(): the get_image reply
    image_data,         \* image.data().to_owned(), blended in place
    blended,            \* frame pixels <<x, y>> written by the blend loop
    texels_read,        \* indices read from cursor.pixels()
    max_request_length, \* big_requests reply
    rows, start, remaining, dst_y,  \* locals of the split loop (remaining = the shadowed height)
    sent,               \* put_image requests handed to the connection, in order
    issued,             \* every request handed to the connection, in order
    flushed,            \* how many requests of issued have been written to the server
    conn_error,         \* the connection is in its error state
    conn_open,          \* the connection has not been dropped
    pixmap, gc,         \* "none", "created", "freed"
    stage_failed,       \* the stage that failed, or "none"
    result,             \* what run() produced: "running", "Ok", "Err", "Panic"
    error,              \* the error or panic message
    child,              \* "none", "running", "exited"
    child_status,       \* the child's own exit code
    exit_code,          \* the tool's exit code, -1 while running
    diagnostic          \* something was written to stderr

vars == <<pc, overflow_checks, show_cursor, width, height, cursor, snapshot,
          image_data, blended, texels_read, max_request_length, rows, start,
          remaining, dst_y, sent, issued, flushed, conn_error, conn_open,
          pixmap, gc, stage_failed, result, error, child, child_status,
          exit_code, diagnostic>>

(***************************************************************************)
(* Bounds of the model.                                                    *)
(***************************************************************************)
MaxWidth == 2
MaxHeight == 9
MaxRequest == 40
MaxPos == 1
MaxHot == 1
MaxCursor == 2

(***************************************************************************)
(* Program constants.                                                      *)
(***************************************************************************)
req_size == 18
big_length_field == 4
BytesPerPixel == 4
ExitFailure == 1
ExitPanic == 101
ExitSuccess == 0

None == [none |-> TRUE]

(***************************************************************************)
(* usize arithmetic (two's complement representation).                     *)
(***************************************************************************)
\* a < b as unsigned 64-bit values
ULess(a, b) == IF (a >= 0) = (b >= 0) THEN a < b ELSE a >= 0

UMax(a, b) == IF ULess(a, b) THEN b ELSE a

UMin(a, b) == IF ULess(a, b) THEN a ELSE b

\* a - b leaves the usize range (attempt to subtract with overflow)
SubOverflows(a, b) == ULess(a, b)

\* a + b leaves the usize range (attempt to add with overflow); b is a u16 here
AddOverflows(a, b) == a < 0 /\ a + b >= 0

\* a value no smaller than any wrapped usize divided by a stride: above every u16
UsizeHuge == 1073741824

\* a / d on usize: a wrapped dividend (2^64 + a) gives a quotient above every u16
UDiv(a, d) == IF a >= 0 THEN a \div d ELSE UsizeHuge

\* i16 wrap of a sum (dst_y += rows as i16)
ToI16(v) == ((v + 32768) % 65536) - 32768

\* u16 wrap of a product (self.width() * self.height())
ToU16(v) == v % 65536

(***************************************************************************)
(* The pointer sprite (ffi.rs CursorImage) and the captured image.         *)
(***************************************************************************)
\* alpha values of the sprites drawn; for these the f32 blend is exact
TexelAlphas == {0, 255}

\* the XFixesCursorImage records get_cursor_image can return
CursorImages ==
    [x : -1..MaxPos, y : -1..MaxPos, xhot : 0..MaxHot, yhot : 0..MaxHot,
     width : 1..MaxCursor, height : 1..MaxCursor, alpha : TexelAlphas]

\* CursorImage::pixels(): the slice length is the u16 product width * height
PixelsLen(c) == ToU16(c.width * c.height)

\* CPixel at index i of the slice
Texel(c, i) == [r |-> 200 + (i % 8), g |-> 100 + (i % 8), b |-> 50 + (i % 8), a |-> c.alpha]

\* byte i (0-based) of the get_image reply of a w x h screen
SnapshotByte(i) == (i * 7 + 1) % 200

GetImageData(w, h) == [i \in 1..(w * h * BytesPerPixel) |-> SnapshotByte(i - 1)]

(***************************************************************************)
(* The blend loop, main.rs lines 89-113.                                   *)
(***************************************************************************)
\* let cursorx = cursor.x() as usize - cursor.xhot() as usize  (wrapped value)
CursorX(c) == c.x - c.xhot

\* let cursory = cursor.y() as usize - cursor.yhot() as usize  (wrapped value)
CursorY(c) == c.y - c.yhot

\* 0.max(cursorx)..(width as usize).min(cursorx + cursor.width() as usize)
XRange(c, w) ==
    {x \in 0..(w - 1) : /\ ~ULess(x, UMax(0, CursorX(c)))
                        /\ ULess(x, UMin(w, CursorX(c) + c.width))}

\* 0.max(cursory)..(height as usize).min(cursory + cursor.height() as usize)
YRange(c, h) ==
    {y \in 0..(h - 1) : /\ ~ULess(y, UMax(0, CursorY(c)))
                        /\ ULess(y, UMin(h, CursorY(c) + c.height))}

\* the <<x, y>> the two nested loops visit
BlendRegion(c, w, h) == XRange(c, w) \X YRange(c, h)

\* let cstart = cy * cursor.width() as usize + cx
CStart(c, x, y) == (y - CursorY(c)) * c.width + (x - CursorX(c))

\* let istart = (y * width as usize + x) as usize * 4
IStart(w, x, y) == (y * w + x) * BytesPerPixel

\* the loop panics: an overflow check of the build, or a slice index out of bounds
CompositePanics(c, w, h, data, oc) ==
    \/ oc /\ c.width * c.height > 65535
    \/ oc /\ SubOverflows(c.x, c.xhot)
    \/ oc /\ SubOverflows(c.y, c.yhot)
    \/ oc /\ AddOverflows(CursorX(c), c.width)
    \/ XRange(c, w) # {} /\ oc /\ AddOverflows(CursorY(c), c.height)
    \/ \E p \in BlendRegion(c, w, h) :
          \/ CStart(c, p[1], p[2]) >= PixelsLen(c)
          \/ IStart(w, p[1], p[2]) + 2 >= Len(data)

\* (old as f32 * (1.0 - alpha) + new as f32 * alpha) as u8, alpha = a / 255.0
Blend(old, new, a) == (old * (255 - a) + new * a) \div 255

\* byte i (1-based) of image_data after the loop
BlendedByte(c, w, h, data, i) ==
    LET p  == (i - 1) \div BytesPerPixel
        ch == (i - 1) % BytesPerPixel
        x  == p % w
        y  == p \div w
        t  == Texel(c, CStart(c, x, y))
    IN  IF <<x, y>> \in BlendRegion(c, w, h) /\ ch < 3
        THEN Blend(data[i], CASE ch = 0 -> t.b [] ch = 1 -> t.g [] OTHER -> t.r, t.a)
        ELSE data[i]

CompositeData(c, w, h, data) ==
    [i \in 1..Len(data) |-> BlendedByte(c, w, h, data, i)]

TexelsRead(c, w, h) == {CStart(c, p[1], p[2]) : p \in BlendRegion(c, w, h)}

(***************************************************************************)
(* Leaving run(): an Err from `?`, a panic, or Ok.  The connection is      *)
(* dropped when run() is left.                                             *)
(***************************************************************************)
Leave(res, stage, msg) ==
    /\ pc' = "returned"
    /\ result' = res
    /\ stage_failed' = stage
    /\ error' = msg
    /\ conn_open' = FALSE

\* a request handed to the connection (queued in its output buffer)
Issue(reqs) == issued' = issued \o reqs

\* get_reply(): the output buffer is written out before the reply is awaited
IssueAndAwaitReply(reqs) ==
    /\ issued' = issued \o reqs
    /\ flushed' = Len(issued) + Len(reqs)

Init ==
    /\ pc = "connect"
    /\ overflow_checks \in BOOLEAN
    /\ show_cursor \in BOOLEAN
    /\ width = 0 /\ height = 0
    /\ cursor = None
    /\ snapshot = <<>> /\ image_data = <<>>
    /\ blended = {} /\ texels_read = {}
    /\ max_request_length = 0
    /\ rows = 0 /\ start = 0 /\ remaining = 0 /\ dst_y = 0
    /\ sent = <<>> /\ issued = <<>> /\ flushed = 0
    /\ conn_error = FALSE /\ conn_open = FALSE
    /\ pixmap = "none" /\ gc = "none"
    /\ stage_failed = "none" /\ result = "running" /\ error = ""
    /\ child = "none" /\ child_status = 0
    /\ exit_code = -1 /\ diagnostic = FALSE

\* main.rs 46-47: Connection::connect(None).context(..)?
Connect ==
    /\ pc = "connect"
    /\ \/ /\ pc' = "roots"
          /\ conn_open' = TRUE
          /\ UNCHANGED <<result, stage_failed, error>>
       \/ Leave("Err", "connect", "Failed to connect to X server")
    /\ UNCHANGED <<overflow_checks, show_cursor, width, height, cursor, snapshot,
                   image_data, blended, texels_read, max_request_length, rows,
                   start, remaining, dst_y, sent, issued, flushed, conn_error,
                   pixmap, gc, child, child_status, exit_code, diagnostic>>

\* main.rs 48-55: roots().nth(preferred_screen).ok_or(..)?, width and height
Roots ==
    /\ pc = "roots"
    /\ \/ /\ pc' = "create_pixmap"
          /\ width' \in 1..MaxWidth
          /\ height' \in 1..MaxHeight
          /\ UNCHANGED <<result, stage_failed, error, conn_open>>
       \/ /\ Leave("Err", "connect", "screen not found")
          /\ UNCHANGED <<width, height>>
    /\ UNCHANGED <<overflow_checks, show_cursor, cursor, snapshot,
                   image_data, blended, texels_read, max_request_length, rows,
                   start, remaining, dst_y, sent, issued, flushed, conn_error,
                   pixmap, gc, child, child_status, exit_code, diagnostic>>

\* main.rs 57-66: create_pixmap
CreatePixmap ==
    /\ pc = "create_pixmap"
    /\ pc' = "cursor"
    /\ Issue(<<"create_pixmap">>)
    /\ pixmap' = "created"
    /\ UNCHANGED <<overflow_checks, show_cursor, width, height, cursor, snapshot,
                   image_data, blended, texels_read, max_request_length, rows,
                   start, remaining, dst_y, sent, flushed, conn_error, conn_open,
                   gc, stage_failed, result, error, child, child_status,
                   exit_code, diagnostic>>

\* main.rs 68-73 with ffi.rs 23-37 (Display::open) and 208-217 (get_cursor_image)
SampleCursor ==
    /\ pc = "cursor"
    /\ \/ /\ ~show_cursor
          /\ pc' = "get_image"
          /\ cursor' = None
          /\ UNCHANGED <<result, stage_failed, error, conn_open>>
       \/ /\ show_cursor
          /\ \/ /\ Leave("Panic", "cursor", "assertion failed: !ptr.is_null()")
                /\ UNCHANGED cursor
             \/ /\ Leave("Err", "cursor", "xfixes version is too old")
                /\ UNCHANGED cursor
             \/ /\ pc' = "get_image"
                /\ cursor' \in CursorImages
                /\ UNCHANGED <<result, stage_failed, error, conn_open>>
    /\ UNCHANGED <<overflow_checks, show_cursor, width, height, snapshot,
                   image_data, blended, texels_read, max_request_length, rows,
                   start, remaining, dst_y, sent, issued, flushed, conn_error,
                   pixmap, gc, child, child_status, exit_code, diagnostic>>

\* main.rs 75-87: get_image(..).get_reply().context(..)?, image.data().to_owned()
GetImage ==
    /\ pc = "get_image"
    /\ IssueAndAwaitReply(<<"get_image">>)
    /\ \/ /\ pc' = "composite"
          /\ snapshot' = GetImageData(width, height)
          /\ image_data' = GetImageData(width, height)
          /\ UNCHANGED <<result, stage_failed, error, conn_open>>
       \/ /\ Leave("Err", "snapshot", "Failed to capture screen")
          /\ UNCHANGED <<snapshot, image_data>>
    /\ UNCHANGED <<overflow_checks, show_cursor, width, height, cursor,
                   blended, texels_read, max_request_length, rows,
                   start, remaining, dst_y, sent, conn_error,
                   pixmap, gc, child, child_status, exit_code, diagnostic>>

\* main.rs 89-112: if let Some(cursor) = cursor { blend loop }
Composite ==
    /\ pc = "composite"
    /\ IF cursor = None
       THEN /\ pc' = "composited"
            /\ UNCHANGED <<image_data, blended, texels_read, result,
                           stage_failed, error, conn_open>>
       ELSE IF CompositePanics(cursor, width, height, image_data, overflow_checks)
       THEN /\ Leave("Panic", "composite", "arithmetic overflow or index out of bounds")
            /\ UNCHANGED <<image_data, blended, texels_read>>
       ELSE /\ pc' = "composited"
            /\ image_data' = CompositeData(cursor, width, height, image_data)
            /\ blended' = BlendRegion(cursor, width, height)
            /\ texels_read' = TexelsRead(cursor, width, height)
            /\ UNCHANGED <<result, stage_failed, error, conn_open>>
    /\ UNCHANGED <<overflow_checks, show_cursor, width, height, cursor, snapshot,
                   max_request_length, rows, start, remaining, dst_y, sent,
                   issued, flushed, conn_error, pixmap, gc, child, child_status,
                   exit_code, diagnostic>>

\* main.rs 113: the end of the if-let block, the CursorImage moved into it is dropped
EndComposite ==
    /\ pc = "composited"
    /\ pc' = "create_gc"
    /\ cursor' = None
    /\ UNCHANGED <<overflow_checks, show_cursor, width, height, snapshot,
                   image_data, blended, texels_read, max_request_length, rows,
                   start, remaining, dst_y, sent, issued, flushed, conn_error,
                   conn_open, pixmap, gc, stage_failed, result, error, child,
                   child_status, exit_code, diagnostic>>

\* main.rs 115-117: create_gc
CreateGc ==
    /\ pc = "create_gc"
    /\ pc' = "big_requests"
    /\ Issue(<<"create_gc">>)
    /\ gc' = "created"
    /\ UNCHANGED <<overflow_checks, show_cursor, width, height, cursor, snapshot,
                   image_data, blended, texels_read, max_request_length, rows,
                   start, remaining, dst_y, sent, flushed, conn_error, conn_open,
                   pixmap, stage_failed, result, error, child, child_status,
                   exit_code, diagnostic>>

\* main.rs 119-122: big_requests::enable(..).get_reply().context(..)?
BigRequests ==
    /\ pc = "big_requests"
    /\ IssueAndAwaitReply(<<"big_requests_enable">>)
    /\ \/ /\ pc' = "transmit"
          /\ max_request_length' \in 0..MaxRequest
          /\ UNCHANGED <<result, stage_failed, error, conn_open>>
       \/ /\ Leave("Err", "max_request", "Failed to get maximum request length")
          /\ UNCHANGED max_request_length
    /\ UNCHANGED <<overflow_checks, show_cursor, width, height, cursor, snapshot,
                   image_data, blended, texels_read, rows,
                   start, remaining, dst_y, sent, conn_error,
                   pixmap, gc, child, child_status, exit_code, diagnostic>>

(***************************************************************************)
(* Transmission, main.rs lines 124-182.                                    *)
(***************************************************************************)
\* let stride = image_data.len() / height as usize
Stride(data, h) == Len(data) \div h

\* mutant of Overhead: only req_size is subtracted
OverheadReqSizeOnly == req_size

\* protocol overhead subtracted from the maximum request length (line 145)
Overhead == req_size + big_length_field

\* (max_request_length as usize - req_size - 4) / stride
RowsPerChunk(maxlen, stride) == UDiv(maxlen - Overhead, stride)

\* if image_data.len() < max_request_length as usize
FitsOneRequest(data, maxlen) == Len(data) < maxlen

\* the put_image request of `r` rows at row `y` carrying image_data[from..from + length]
PutImageRequest(y, r, from, length) ==
    [dst_y |-> y, rows |-> r, data |-> SubSeq(image_data, from + 1, from + length),
     dropped |-> conn_error]

\* rows taken by one iteration: if rows > height { rows = height }
RowsTaken(r, left) == IF r > left THEN left ELSE r

\* mutant of NextDstY: dst_y is not advanced
NextDstYStuck(y, r) == y

\* dst_y += rows as i16
NextDstY(y, r) == y + ToI16(r)

\* mutant of NextStart: the byte cursor advances by one row, not by the chunk
NextStartOneRow(from, length) == from + Stride(image_data, height)

\* start += length
NextStart(from, length) == from + length

\* main.rs 130-143: the whole image in one put_image
PutImageWhole ==
    /\ pc = "transmit"
    /\ FitsOneRequest(image_data, max_request_length)
    /\ pc' = "free_gc"
    /\ sent' = Append(sent, PutImageRequest(0, height, 0, Len(image_data)))
    /\ Issue(<<"put_image">>)
    /\ conn_error' \in {conn_error, TRUE}
    /\ UNCHANGED <<overflow_checks, show_cursor, width, height, cursor, snapshot,
                   image_data, blended, texels_read, max_request_length, rows,
                   start, remaining, dst_y, flushed, conn_open, pixmap, gc,
                   stage_failed, result, error, child, child_status, exit_code,
                   diagnostic>>

\* main.rs 144-152: rows per chunk, panic on zero rows, loop variables
PlanChunks ==
    /\ pc = "transmit"
    /\ ~FitsOneRequest(image_data, max_request_length)
    /\ IF overflow_checks /\ SubOverflows(max_request_length, Overhead)
       THEN /\ Leave("Panic", "transmit", "attempt to subtract with overflow")
            /\ UNCHANGED <<rows, start, remaining, dst_y>>
       ELSE IF RowsPerChunk(max_request_length, Stride(image_data, height)) <= 0
       THEN /\ Leave("Panic", "transmit", "0 rows to transmit")
            /\ UNCHANGED <<rows, start, remaining, dst_y>>
       ELSE /\ pc' = "loop"
            /\ rows' = RowsPerChunk(max_request_length, Stride(image_data, height))
            /\ start' = 0
            /\ remaining' = height
            /\ dst_y' = 0
            /\ UNCHANGED <<result, stage_failed, error, conn_open>>
    /\ UNCHANGED <<overflow_checks, show_cursor, width, height, cursor, snapshot,
                   image_data, blended, texels_read, max_request_length, sent,
                   issued, flushed, conn_error, pixmap, gc, child, child_status,
                   exit_code, diagnostic>>

\* main.rs 153-181: one iteration of the loop
PutImageChunk ==
    /\ pc = "loop"
    /\ LET r      == RowsTaken(rows, remaining)
           length == r * Stride(image_data, height)
       IN  IF \/ start + length > Len(image_data)
              \/ overflow_checks /\ NextDstY(dst_y, r) \notin -32768..32767
           THEN /\ Leave("Panic", "transmit", "slice index or overflow")
                /\ UNCHANGED <<rows, start, remaining, dst_y, sent, issued, conn_error>>
           ELSE /\ rows' = r
                /\ sent' = Append(sent, PutImageRequest(dst_y, r, start, length))
                /\ Issue(<<"put_image">>)
                /\ conn_error' \in {conn_error, TRUE}
                /\ remaining' = remaining - r
                /\ dst_y' = ToI16(NextDstY(dst_y, r))
                /\ start' = NextStart(start, length)
                /\ pc' = IF remaining - r = 0 THEN "free_gc" ELSE "loop"
                /\ UNCHANGED <<result, stage_failed, error, conn_open>>
    /\ UNCHANGED <<overflow_checks, show_cursor, width, height, cursor, snapshot,
                   image_data, blended, texels_read, max_request_length,
                   flushed, pixmap, gc, child, child_status, exit_code,
                   diagnostic>>

\* main.rs 183: free_gc
FreeGc ==
    /\ pc = "free_gc"
    /\ pc' = "has_error"
    /\ Issue(<<"free_gc">>)
    /\ gc' = "freed"
    /\ UNCHANGED <<overflow_checks, show_cursor, width, height, cursor, snapshot,
                   image_data, blended, texels_read, max_request_length, rows,
                   start, remaining, dst_y, sent, flushed, conn_error, conn_open,
                   pixmap, stage_failed, result, error, child, child_status,
                   exit_code, diagnostic>>

\* main.rs 185-187: conn.has_error().context(..)?
HasError ==
    /\ pc = "has_error"
    /\ IF conn_error
       THEN Leave("Err", "transmission", "Found error after sending the image to X")
       ELSE /\ pc' = "create_window"
            /\ UNCHANGED <<result, stage_failed, error, conn_open>>
    /\ UNCHANGED <<overflow_checks, show_cursor, width, height, cursor, snapshot,
                   image_data, blended, texels_read, max_request_length, rows,
                   start, remaining, dst_y, sent, issued, flushed, conn_error,
                   pixmap, gc, child, child_status, exit_code, diagnostic>>

(***************************************************************************)
(* Window set-up and the child command, main.rs lines 189-274.             *)
(***************************************************************************)
\* main.rs 189-208: create_window with the pixmap as background
CreateWindow ==
    /\ pc = "create_window"
    /\ pc' = "free_pixmap"
    /\ Issue(<<"create_window">>)
    /\ UNCHANGED <<overflow_checks, show_cursor, width, height, cursor, snapshot,
                   image_data, blended, texels_read, max_request_length, rows,
                   start, remaining, dst_y, sent, flushed, conn_error, conn_open,
                   pixmap, gc, stage_failed, result, error, child, child_status,
                   exit_code, diagnostic>>

\* main.rs 210: free_pixmap
FreePixmap ==
    /\ pc = "free_pixmap"
    /\ pc' = "properties"
    /\ Issue(<<"free_pixmap">>)
    /\ pixmap' = "freed"
    /\ UNCHANGED <<overflow_checks, show_cursor, width, height, cursor, snapshot,
                   image_data, blended, texels_read, max_request_length, rows,
                   start, remaining, dst_y, sent, flushed, conn_error, conn_open,
                   gc, stage_failed, result, error, child, child_status,
                   exit_code, diagnostic>>

\* main.rs 212-231: change_property WM_NAME and WM_CLASS
SetNameAndClass ==
    /\ pc = "properties"
    /\ pc' = "intern_atom"
    /\ Issue(<<"change_property", "change_property">>)
    /\ UNCHANGED <<overflow_checks, show_cursor, width, height, cursor, snapshot,
                   image_data, blended, texels_read, max_request_length, rows,
                   start, remaining, dst_y, sent, flushed, conn_error, conn_open,
                   pixmap, gc, stage_failed, result, error, child, child_status,
                   exit_code, diagnostic>>

\* main.rs 233-236: intern_atom(..).get_reply().context(..)?
InternAtom ==
    /\ pc = "intern_atom"
    /\ IssueAndAwaitReply(<<"intern_atom">>)
    /\ \/ /\ pc' = "bypass"
          /\ UNCHANGED <<result, stage_failed, error, conn_open>>
       \/ Leave("Err", "window_setup", "Failed to get compositor bypass atom")
    /\ UNCHANGED <<overflow_checks, show_cursor, width, height, cursor, snapshot,
                   image_data, blended, texels_read, max_request_length, rows,
                   start, remaining, dst_y, sent, conn_error,
                   pixmap, gc, child, child_status, exit_code, diagnostic>>

\* main.rs 238-246: change_property _NET_WM_BYPASS_COMPOSITOR
SetBypassCompositor ==
    /\ pc = "bypass"
    /\ pc' = "map_window"
    /\ Issue(<<"change_property">>)
    /\ UNCHANGED <<overflow_checks, show_cursor, width, height, cursor, snapshot,
                   image_data, blended, texels_read, max_request_length, rows,
                   start, remaining, dst_y, sent, flushed, conn_error, conn_open,
                   pixmap, gc, stage_failed, result, error, child, child_status,
                   exit_code, diagnostic>>

\* main.rs 248-249: map_window
MapWindow ==
    /\ pc = "map_window"
    /\ pc' = "configure_window"
    /\ Issue(<<"map_window">>)
    /\ UNCHANGED <<overflow_checks, show_cursor, width, height, cursor, snapshot,
                   image_data, blended, texels_read, max_request_length, rows,
                   start, remaining, dst_y, sent, flushed, conn_error, conn_open,
                   pixmap, gc, stage_failed, result, error, child, child_status,
                   exit_code, diagnostic>>

\* main.rs 251-256: configure_window, stack mode above
ConfigureWindow ==
    /\ pc = "configure_window"
    /\ pc' = "flush"
    /\ Issue(<<"configure_window">>)
    /\ UNCHANGED <<overflow_checks, show_cursor, width, height, cursor, snapshot,
                   image_data, blended, texels_read, max_request_length, rows,
                   start, remaining, dst_y, sent, flushed, conn_error, conn_open,
                   pixmap, gc, stage_failed, result, error, child, child_status,
                   exit_code, diagnostic>>

\* main.rs 258-259: conn.flush()
Flush ==
    /\ pc = "flush"
    /\ pc' = "set_input_focus"
    /\ flushed' = Len(issued)
    /\ UNCHANGED <<overflow_checks, show_cursor, width, height, cursor, snapshot,
                   image_data, blended, texels_read, max_request_length, rows,
                   start, remaining, dst_y, sent, issued, conn_error, conn_open,
                   pixmap, gc, stage_failed, result, error, child, child_status,
                   exit_code, diagnostic>>

\* main.rs 261-266: set_input_focus
SetInputFocus ==
    /\ pc = "set_input_focus"
    /\ pc' = "spawn"
    /\ Issue(<<"set_input_focus">>)
    /\ UNCHANGED <<overflow_checks, show_cursor, width, height, cursor, snapshot,
                   image_data, blended, texels_read, max_request_length, rows,
                   start, remaining, dst_y, sent, flushed, conn_error, conn_open,
                   pixmap, gc, stage_failed, result, error, child, child_status,
                   exit_code, diagnostic>>

\* main.rs 268-272: Command::new(..).status(), the child is started
Spawn ==
    /\ pc = "spawn"
    /\ \/ /\ pc' = "wait"
          /\ child' = "running"
          /\ UNCHANGED <<result, stage_failed, error, conn_open>>
       \/ /\ Leave("Err", "spawn", "Failed to execute")
          /\ UNCHANGED child
    /\ UNCHANGED <<overflow_checks, show_cursor, width, height, cursor, snapshot,
                   image_data, blended, texels_read, max_request_length, rows,
                   start, remaining, dst_y, sent, issued, flushed, conn_error,
                   pixmap, gc, child_status, exit_code, diagnostic>>

\* exit codes a child can end with
ChildStatuses == {0, 1}

\* main.rs 269-274: status() returns when the child has exited; Ok(())
ChildExit ==
    /\ pc = "wait"
    /\ child' = "exited"
    /\ child_status' \in ChildStatuses
    /\ Leave("Ok", "none", "")
    /\ UNCHANGED <<overflow_checks, show_cursor, width, height, cursor, snapshot,
                   image_data, blended, texels_read, max_request_length, rows,
                   start, remaining, dst_y, sent, issued, flushed, conn_error,
                   pixmap, gc, exit_code, diagnostic>>

\* main.rs 32-41: main prints the error chain and exits 1; a panic exits 101
ExitCodeOf(res) ==
    CASE res = "Ok" -> ExitSuccess
      [] res = "Err" -> ExitFailure
      [] OTHER -> ExitPanic

MainExit ==
    /\ pc = "returned"
    /\ pc' = "exited"
    /\ exit_code' = ExitCodeOf(result)
    /\ diagnostic' = (result # "Ok")
    /\ UNCHANGED <<overflow_checks, show_cursor, width, height, cursor, snapshot,
                   image_data, blended, texels_read, max_request_length, rows,
                   start, remaining, dst_y, sent, issued, flushed, conn_error,
                   conn_open, pixmap, gc, stage_failed, result, error, child,
                   child_status>>

Next ==
    \/ Connect \/ Roots \/ CreatePixmap \/ SampleCursor \/ GetImage
    \/ Composite \/ EndComposite \/ CreateGc \/ BigRequests \/ PutImageWhole \/ PlanChunks
    \/ PutImageChunk \/ FreeGc \/ HasError \/ CreateWindow \/ FreePixmap
    \/ SetNameAndClass \/ InternAtom \/ SetBypassCompositor \/ MapWindow
    \/ ConfigureWindow \/ Flush \/ SetInputFocus \/ Spawn \/ ChildExit
    \/ MainExit

Spec == Init /\ [][Next]_vars

\* the run without --show-cursor (the flag's default): the image sent is the snapshot
InitNoCursor == Init /\ ~show_cursor

SpecNoCursor == InitNoCursor /\ [][Next]_vars

(***************************************************************************)
(* Properties.                                                             *)
(***************************************************************************)
RECURSIVE SumRows(_, _)
\* rows of the first k requests of s
SumRows(s, k) == IF k = 0 THEN 0 ELSE SumRows(s, k - 1) + s[k].rows

RECURSIVE ConcatData(_, _)
\* the data of the first k requests of s, concatenated in order
ConcatData(s, k) == IF k = 0 THEN <<>> ELSE ConcatData(s, k - 1) \o s[k].data

\* the loop (or the single put_image) has ended: free_gc is next or done
TransmissionEnded == pc = "free_gc" \/ gc = "freed"

\* the transmission step has acted on max_request_length
TransmitActed ==
    \/ pc \in {"loop", "free_gc", "has_error", "create_window", "free_pixmap",
               "properties", "intern_atom", "bypass", "map_window",
               "configure_window", "flush", "set_input_focus", "spawn", "wait"}
    \/ stage_failed \in {"transmit", "transmission", "window_setup", "spawn"}
    \/ result = "Ok"

\* the image did not fit one request: the split path was taken
SplitPath == TransmitActed /\ ~FitsOneRequest(image_data, max_request_length)

\* C1: the put_image requests are a contiguous, gapless, non-overlapping,
\* order-preserving partition of the buffer: every chunk has at least one
\* row and rows * stride bytes, its dst_y is the sum of the rows before it,
\* its bytes are the bytes of those rows, and when the transmission has
\* ended the rows sum to height and the chunks concatenate to the buffer.
C1_ChunkPartition ==
    /\ \A k \in 1..Len(sent) :
          LET stride == Stride(image_data, height)
              before == SumRows(sent, k - 1)
          IN  /\ sent[k].rows >= 1
              /\ Len(sent[k].data) = sent[k].rows * stride
              /\ sent[k].dst_y = before
              /\ sent[k].data = SubSeq(image_data, before * stride + 1,
                                       (before + sent[k].rows) * stride)
    /\ TransmissionEnded =>
          /\ Len(sent) >= 1
          /\ SumRows(sent, Len(sent)) = height
          /\ ConcatData(sent, Len(sent)) = image_data

\* C1 witness: a split transmission of at least three chunks, the last shorter, has ended
C1_Witness ==
    /\ TransmissionEnded
    /\ Len(sent) >= 3
    /\ sent[Len(sent)].rows < sent[1].rows

\* C2: every put_image handed to the transport, on the single-request path
\* and on the split path, carries at most max_request_length - 18 bytes.
C2_FitsLimit ==
    \A k \in 1..Len(sent) : Len(sent[k].data) + req_size <= max_request_length

\* C3: when the buffer does not fit one request and stride exceeds
\* max_request_length - 18, the transmission fails with an error value
\* (ChunkTooSmall) returned to the caller, and no chunk is emitted.
C3_ChunkTooSmall ==
    (/\ SplitPath
     /\ Stride(image_data, height) > max_request_length - req_size)
    => /\ result = "Err"
       /\ stage_failed = "transmit"
       /\ sent = <<>>

\* rows per chunk of the split path with the overhead of 22 bytes the code subtracts
RowsPerChunk22 ==
    IF max_request_length >= 22
    THEN (max_request_length - 22) \div Stride(image_data, height)
    ELSE UsizeHuge

\* rows per chunk with the overhead of 18 bytes
RowsPerChunk18 == (max_request_length - 18) \div Stride(image_data, height)

\* on the split path every chunk but the last has n rows, the last the rest (1..n)
ChunkRowsAre(n) ==
    (SplitPath /\ Len(sent) >= 1) =>
        /\ \A k \in 1..Len(sent) :
              (k < Len(sent) \/ ~TransmissionEnded) => sent[k].rows = n
        /\ TransmissionEnded =>
              /\ sent[Len(sent)].rows = height - (Len(sent) - 1) * n
              /\ sent[Len(sent)].rows \in 1..n

\* C4 as stated: on the split path rows_per_chunk = floor((max_request_length - 18) / stride)
C4_RowsPerChunk18 == ChunkRowsAre(RowsPerChunk18)

\* C4 amended: on the split path rows_per_chunk =
\* floor((max_request_length - 22) / stride) in usize arithmetic: every chunk
\* but the last has that many rows, the last has the remaining rows.
C4_RowsPerChunk22 == ChunkRowsAre(RowsPerChunk22)

\* C4 witness: a split transmission with two rows per chunk and a last chunk of one row
C4_Witness ==
    /\ SplitPath /\ TransmissionEnded
    /\ Len(sent) >= 3
    /\ RowsPerChunk22 = 2
    /\ sent[1].rows = 2
    /\ sent[Len(sent)].rows = 1

\* the sprite rectangle [x - xhot, x - xhot + width) x [y - yhot, y - yhot + height)
\* intersected with the frame, in signed arithmetic
VisibleRect(c, w, h) ==
    {p \in (0..(w - 1)) \X (0..(h - 1)) :
        /\ c.x - c.xhot <= p[1] /\ p[1] < c.x - c.xhot + c.width
        /\ c.y - c.yhot <= p[2] /\ p[2] < c.y - c.yhot + c.height}

\* the blend loop has acted on the sprite (it finished or it panicked)
CompositeActed == cursor # None /\ (pc = "composited" \/ stage_failed = "composite")

\* C5: for every position, hotspot and size of the sprite, the blend loop
\* completes without panic, reads only texels below width * height of the
\* sprite and blends exactly the frame pixels of the sprite rectangle
\* clipped to the frame.
C5_ClippedBlend ==
    CompositeActed =>
        /\ result # "Panic"
        /\ texels_read \subseteq 0..(cursor.width * cursor.height - 1)
        /\ blended = VisibleRect(cursor, width, height)

\* C6: a sprite rectangle entirely outside the frame makes the blend loop a
\* no-op: no error, and the image is byte for byte the snapshot.
C6_OutsideIsNoOp ==
    (CompositeActed /\ VisibleRect(cursor, width, height) = {}) =>
        /\ result # "Panic"
        /\ image_data = snapshot

\* C7: when run() has returned Ok or an error value, no created pixmap or graphics context is
\* left unfreed, and both are freed before the window is mapped.
C7_Released ==
    /\ (pc \in {"returned", "exited"} /\ result \in {"Ok", "Err"}) =>
          (pixmap # "created" /\ gc # "created")
    /\ (\E i \in 1..Len(issued) : issued[i] = "map_window") =>
          (pixmap = "freed" /\ gc = "freed")

\* C8: the exit code is 0 without diagnostic when every stage succeeded and
\* the child was awaited, whatever the child's exit code; when a stage
\* failed it is 1 with a diagnostic, and the child was never spawned.
C8_ExitCode ==
    pc = "exited" =>
        /\ (stage_failed = "none" /\ child = "exited") =>
              (exit_code = ExitSuccess /\ ~diagnostic)
        /\ stage_failed # "none" =>
              (exit_code = ExitFailure /\ diagnostic /\ child = "none")

\* C9 as stated: chunks go out in increasing dst_y order and a chunk is
\* handed to the transport only when the one before it was acknowledged, so
\* that no chunk follows a failed one.
C9_AckedBeforeNext ==
    /\ \A j, k \in 1..Len(sent) : j < k => sent[j].dst_y < sent[k].dst_y
    /\ \A k \in 2..Len(sent) : ~sent[k].dropped

\* C9 amended: chunks are handed to the connection in strictly increasing
\* dst_y order; a connection failure is observed only by the has_error
\* check, after the last chunk was handed over and the gc freed.
C9_InOrderCheckedAfter ==
    /\ \A j, k \in 1..Len(sent) : j < k => sent[j].dst_y < sent[k].dst_y
    /\ stage_failed = "transmission" =>
          /\ conn_error
          /\ gc = "freed"
          /\ SumRows(sent, Len(sent)) = height
    /\ (conn_error /\ pc \in {"loop", "free_gc", "has_error"}) => result = "running"

\* C9 witness: the failure was seen after three or more chunks, the later ones
\* handed over with the connection already failed
C9_Witness ==
    /\ stage_failed = "transmission"
    /\ Len(sent) >= 3
    /\ sent[2].dropped
    /\ sent[1].dst_y < sent[2].dst_y /\ sent[2].dst_y < sent[3].dst_y

\* position of the first request named r in issued, 0 when there is none
FirstIssued(r) ==
    IF \E i \in 1..Len(issued) : issued[i] = r
    THEN CHOOSE i \in 1..Len(issued) :
            issued[i] = r /\ \A j \in 1..(i - 1) : issued[j] # r
    ELSE 0

\* C10: when the child is spawned, map_window, configure_window (raise) and
\* set_input_focus have been issued in that order and all written to the
\* server, and the connection stays open without further requests while the
\* child runs.
C10_DeliveredBeforeSpawn ==
    child = "running" =>
        /\ 0 < FirstIssued("map_window")
        /\ FirstIssued("map_window") < FirstIssued("configure_window")
        /\ FirstIssued("configure_window") < FirstIssued("set_input_focus")
        /\ FirstIssued("set_input_focus") <= flushed
        /\ conn_open
        /\ issued[Len(issued)] = "set_input_focus"

====
